---- MODULE Spec2Model ----
(***************************************************************************)
(* Model of the auth service (package auth): Login, RefreshToken,          *)
(* authenticate, generateJWT, generateAccessToken, generateRefreshToken,   *)
(* over the user store (domain.User records).                              *)
(*                                                                         *)
(* A call is split where it touches the store: the first step runs from    *)
(* the entry of the handler through the lookup (GetByUsername / GetByID),  *)
(* the comparisons and the signing and hashing of generateJWT; the second  *)
(* step is the Update of generateJWT and the return of the handler.        *)
(* Several calls (Procs) interleave at these steps.  Between the steps     *)
(* the caller can cancel the context of a call (Cancel) and user           *)
(* management can clear the active flag of a user (Deactivate).            *)
(***************************************************************************)
EXTENDS Integers, Sequences, FiniteSets, TLC

(***************************************************************************)
(* Bounds of the model.                                                    *)
(***************************************************************************)
\* the clock runs over the seconds 0..MaxSec
MaxSec == 1
\* the configured access-token TTL, cfg.JWT.TokenExpiration, in minutes
TokenExpiration == 1
\* the length of a calendar year, in seconds, scaled down
YearLen == 100

(***************************************************************************)
(* Program constants.                                                      *)
(***************************************************************************)
\* time.Minute, in seconds
SecondsPerMinute == 60
\* AddDate(1000, 0, 0)
RefreshYears == 1000

Procs == {1, 2}

\* cfg.JWT.SigningKey and a key the service does not hold
SigningKey == "K"
OtherKey == "K2"

TokenTypeAccess == "access"
TokenTypeRefresh == "refresh"

(***************************************************************************)
(* Time.  The clock counts whole seconds: Unix() and Format(RFC3339) keep   *)
(* the second of an instant and nothing below it.  Two readings of         *)
(* times.Now() in one call can fall in different seconds.                  *)
(***************************************************************************)
\* time.Time.Unix(): the second as a number
Unix(t) == t

\* time.Time.Format(time.RFC3339): the second as a timestamp string
FormatRFC3339(t) == [rfc3339 |-> t]

\* times.Now().Add(time.Duration(m) * time.Minute)
AddMinutes(t, m) == t + m * SecondsPerMinute

\* times.Now().AddDate(y, 0, 0)
AddDate(t, y) == t + y * YearLen

(***************************************************************************)
(* Claims and tokens.  A jwt.MapClaims entry is present with a string,     *)
(* present with another type, or absent.  A token string is identified     *)
(* with what it encodes: HS256 over the sorted JSON claims is a            *)
(* deterministic function of the claims and the key.                       *)
(***************************************************************************)
Str(s) == [t |-> "str", v |-> s]
Num(s) == [t |-> "num", v |-> s]
Absent == [t |-> "absent", v |-> ""]

\* claims[k].(string): the value and ok
AsString(c) == IF c.t = "str" THEN [val |-> c.v, ok |-> TRUE] ELSE [val |-> "", ok |-> FALSE]

\* jwt.NewWithClaims(jwt.SigningMethodHS256, claims).SignedString(key)
SignedString(id, username, exp, tokenType, key) ==
  [s |-> "jwt", key |-> key, id |-> id, username |-> username, exp |-> exp,
   token_type |-> tokenType]

\* the empty string
EmptyString == [s |-> "empty", key |-> "", id |-> Absent, username |-> Absent, exp |-> 0,
                token_type |-> Absent]

\* a string that is not a JWT
Garbage == [s |-> "garbage", key |-> "", id |-> Absent, username |-> Absent, exp |-> 0,
            token_type |-> Absent]

\* auth.VerifyToken(tokenString, signingKey): parses and verifies the signature
VerifyToken(tok, key) == tok.s = "jwt" /\ tok.key = key

(***************************************************************************)
(* Password hashing (package password).                                    *)
(***************************************************************************)
\* password.HashAndSalt(plain): a salted hash.  The salt is left out: the
\* service never compares two hashes, only a hash with a plaintext
HashAndSalt(plain) == [hashOf |-> plain]

\* password.ComparePasswords(hashed, plain)
ComparePasswords(hashed, plain) == hashed.hashOf = plain

(***************************************************************************)
(* Errors.                                                                 *)
(***************************************************************************)
NoError == "nil"
ErrValidation == "ErrValidation"
ErrInvalidCreds == "ErrInvalidCreds"
ErrUserIsNotActive == "ErrUserIsNotActive"
ErrInvalidToken == "ErrInvalidToken"
ErrExpiredToken == "ErrExpiredToken"
ErrResourceNotFound == "ErrResourceNotFound"
\* any other failure of the store
ErrStore == "ErrStore"
\* errors.Wrap(err, "cannot generate token")
ErrCannotGenerateToken == "ErrCannotGenerateToken"
ErrHash == "ErrHash"
\* runtime panic: nil pointer dereference
Panic == "panic"

(***************************************************************************)
(* domain.User and the user store.                                         *)
(***************************************************************************)
IDs == {"u1", "u2"}
UsernameOf == [u1 |-> "alice", u2 |-> "bob"]
PlainPasswordOf == [u1 |-> "p1", u2 |-> "p2"]

\* domain.User; RefreshToken is *string: <<>> is nil, <<h>> points to h
User(id, username, pwd, refreshToken, isActive) ==
  [ID |-> id, Username |-> username, Password |-> pwd, RefreshToken |-> refreshToken,
   IsActive |-> isActive]

\* the zero domain.User
NoUser == User("", "", HashAndSalt(""), <<>>, FALSE)

\* repoUser.GetByUsername(ctx, username)
GetByUsername(st, username, fails) ==
  IF fails THEN [err |-> ErrStore, user |-> NoUser]
  ELSE IF \E id \in IDs : st[id].Username = username
       THEN [err |-> NoError, user |-> st[CHOOSE id \in IDs : st[id].Username = username]]
       ELSE [err |-> ErrResourceNotFound, user |-> NoUser]

\* repoUser.GetByID(ctx, id)
GetByID(st, id, fails) ==
  IF fails THEN [err |-> ErrStore, user |-> NoUser]
  ELSE IF id \in IDs
       THEN [err |-> NoError, user |-> st[id]]
       ELSE [err |-> ErrResourceNotFound, user |-> NoUser]

\* repoUser.Update(ctx, id, user): writes the fields set in user, here RefreshToken
StoreUpdate(st, id, user) ==
  IF id \in IDs THEN [st EXCEPT ![id].RefreshToken = user.RefreshToken] ELSE st

(***************************************************************************)
(* Requests and responses.                                                 *)
(***************************************************************************)
\* RequestLogin.Validate(): both fields are required
ValidateLogin(req) == req.Username # "" /\ req.Password # ""

\* RequestRefreshToken.Validate(): the field is required
ValidateRefreshToken(req) == req.RefreshToken # EmptyString

\* the ExpiresAt of the zero ResponseLogin: the empty string
NoExpiresAt == [rfc3339 |-> 0 - 1]

\* var res ResponseLogin
ZeroResponse == [AccessToken |-> EmptyString, ExpiresAt |-> NoExpiresAt,
                 RefreshToken |-> EmptyString]

(***************************************************************************)
(* The pure part of the service.                                           *)
(***************************************************************************)
\* authenticate, were a user that is not found reported with the error of the store
authenticate_NoRemap(st, getFails, username, plainPwd) ==
  LET g == GetByUsername(st, username, getFails) IN
  IF g.err # NoError
  THEN [identity |-> NoUser, err |-> g.err]
  ELSE IF username = g.user.Username /\ ComparePasswords(g.user.Password, plainPwd)
       THEN IF ~g.user.IsActive
            THEN [identity |-> NoUser, err |-> ErrUserIsNotActive]
            ELSE [identity |-> g.user, err |-> NoError]
       ELSE [identity |-> NoUser, err |-> ErrInvalidCreds]

\* authenticate, were the active flag looked at before the password
authenticate_ActiveFirst(st, getFails, username, plainPwd) ==
  LET g == GetByUsername(st, username, getFails) IN
  IF g.err # NoError
  THEN IF g.err = ErrResourceNotFound
       THEN [identity |-> NoUser, err |-> ErrInvalidCreds]
       ELSE [identity |-> NoUser, err |-> g.err]
  ELSE IF ~g.user.IsActive
       THEN [identity |-> NoUser, err |-> ErrUserIsNotActive]
       ELSE IF username = g.user.Username /\ ComparePasswords(g.user.Password, plainPwd)
            THEN [identity |-> g.user, err |-> NoError]
            ELSE [identity |-> NoUser, err |-> ErrInvalidCreds]

\* authenticate: the identity for a username and a plaintext password, or an error
authenticate(st, getFails, username, plainPwd) ==
  LET g == GetByUsername(st, username, getFails) IN
  IF g.err # NoError
  THEN IF g.err = ErrResourceNotFound
       THEN [identity |-> NoUser, err |-> ErrInvalidCreds]
       ELSE [identity |-> NoUser, err |-> g.err]
  ELSE IF username = g.user.Username /\ ComparePasswords(g.user.Password, plainPwd)
       THEN IF ~g.user.IsActive
            THEN [identity |-> NoUser, err |-> ErrUserIsNotActive]
            ELSE [identity |-> g.user, err |-> NoError]
       ELSE [identity |-> NoUser, err |-> ErrInvalidCreds]

\* generateAccessToken: r1 and r2 are its two readings of times.Now()
generateAccessToken(identity, r1, r2, signFails) ==
  LET expiresAt == AddMinutes(r1, TokenExpiration)
      expiresAtUnix == Unix(AddMinutes(r2, TokenExpiration))
  IN [accessToken |-> IF signFails THEN EmptyString
                      ELSE SignedString(Str(identity.ID), Str(identity.Username),
                                        expiresAtUnix, Str(TokenTypeAccess), SigningKey),
      expiresAt |-> expiresAt,
      err |-> IF signFails THEN ErrCannotGenerateToken ELSE NoError]

\* generateRefreshToken: r3 is its reading of times.Now()
generateRefreshToken(identity, r3, signFails) ==
  [refreshToken |-> IF signFails THEN EmptyString
                    ELSE SignedString(Str(identity.ID), Absent,
                                      Unix(AddDate(r3, RefreshYears)),
                                      Str(TokenTypeRefresh), SigningKey),
   err |-> IF signFails THEN ErrCannotGenerateToken ELSE NoError]

\* what can go wrong in generateJWT before the store is reached
IssueFaults == {"none", "signAccess", "signRefresh", "hash"}

\* generateJWT, were the whole record of the identity handed to Update
generateJWT_FullPayload(identity, r1, r2, r3, fault) ==
  LET a == generateAccessToken(identity, r1, r2, fault = "signAccess")
      r == generateRefreshToken(identity, r3, fault = "signRefresh")
  IN IF a.err # NoError
     THEN [accessToken |-> a.accessToken, expiresAt |-> a.expiresAt,
           refreshToken |-> EmptyString, err |-> a.err, update |-> FALSE,
           key |-> "", user |-> NoUser]
     ELSE IF r.err # NoError
     THEN [accessToken |-> a.accessToken, expiresAt |-> a.expiresAt,
           refreshToken |-> r.refreshToken, err |-> r.err, update |-> FALSE,
           key |-> "", user |-> NoUser]
     ELSE IF fault = "hash"
     THEN [accessToken |-> a.accessToken, expiresAt |-> a.expiresAt,
           refreshToken |-> r.refreshToken, err |-> ErrHash, update |-> FALSE,
           key |-> "", user |-> NoUser]
     ELSE [accessToken |-> a.accessToken, expiresAt |-> a.expiresAt,
           refreshToken |-> r.refreshToken, err |-> NoError, update |-> TRUE,
           key |-> identity.ID,
           user |-> [identity EXCEPT !.RefreshToken = <<HashAndSalt(r.refreshToken)>>]]

\* generateJWT, were the error of HashAndSalt not looked at before Update
generateJWT_NoHashErrCheck(identity, r1, r2, r3, fault) ==
  LET a == generateAccessToken(identity, r1, r2, fault = "signAccess")
      r == generateRefreshToken(identity, r3, fault = "signRefresh")
  IN IF a.err # NoError
     THEN [accessToken |-> a.accessToken, expiresAt |-> a.expiresAt,
           refreshToken |-> EmptyString, err |-> a.err, update |-> FALSE,
           key |-> "", user |-> NoUser]
     ELSE IF r.err # NoError
     THEN [accessToken |-> a.accessToken, expiresAt |-> a.expiresAt,
           refreshToken |-> r.refreshToken, err |-> r.err, update |-> FALSE,
           key |-> "", user |-> NoUser]
     ELSE IF fault = "hash"
     THEN [accessToken |-> a.accessToken, expiresAt |-> a.expiresAt,
           refreshToken |-> r.refreshToken, err |-> ErrHash, update |-> TRUE,
           key |-> identity.ID,
           user |-> User(identity.ID, "", HashAndSalt(""),
                         <<HashAndSalt(EmptyString)>>, FALSE)]
     ELSE [accessToken |-> a.accessToken, expiresAt |-> a.expiresAt,
           refreshToken |-> r.refreshToken, err |-> NoError, update |-> TRUE,
           key |-> identity.ID,
           user |-> User(identity.ID, "", HashAndSalt(""),
                         <<HashAndSalt(r.refreshToken)>>, FALSE)]

\* generateJWT, were the access token hashed for the store
generateJWT_HashAccess(identity, r1, r2, r3, fault) ==
  LET a == generateAccessToken(identity, r1, r2, fault = "signAccess")
      r == generateRefreshToken(identity, r3, fault = "signRefresh")
  IN IF a.err # NoError
     THEN [accessToken |-> a.accessToken, expiresAt |-> a.expiresAt,
           refreshToken |-> EmptyString, err |-> a.err, update |-> FALSE,
           key |-> "", user |-> NoUser]
     ELSE IF r.err # NoError
     THEN [accessToken |-> a.accessToken, expiresAt |-> a.expiresAt,
           refreshToken |-> r.refreshToken, err |-> r.err, update |-> FALSE,
           key |-> "", user |-> NoUser]
     ELSE IF fault = "hash"
     THEN [accessToken |-> a.accessToken, expiresAt |-> a.expiresAt,
           refreshToken |-> r.refreshToken, err |-> ErrHash, update |-> FALSE,
           key |-> "", user |-> NoUser]
     ELSE [accessToken |-> a.accessToken, expiresAt |-> a.expiresAt,
           refreshToken |-> r.refreshToken, err |-> NoError, update |-> TRUE,
           key |-> identity.ID,
           user |-> User(identity.ID, "", HashAndSalt(""),
                         <<HashAndSalt(a.accessToken)>>, FALSE)]

\* generateJWT up to the call of Update: the tokens, the error so far, and the
\* key and the domain.User handed to Update (update says whether Update is reached)
generateJWT(identity, r1, r2, r3, fault) ==
  LET a == generateAccessToken(identity, r1, r2, fault = "signAccess")
      r == generateRefreshToken(identity, r3, fault = "signRefresh")
  IN IF a.err # NoError
     THEN [accessToken |-> a.accessToken, expiresAt |-> a.expiresAt,
           refreshToken |-> EmptyString, err |-> a.err, update |-> FALSE,
           key |-> "", user |-> NoUser]
     ELSE IF r.err # NoError
     THEN [accessToken |-> a.accessToken, expiresAt |-> a.expiresAt,
           refreshToken |-> r.refreshToken, err |-> r.err, update |-> FALSE,
           key |-> "", user |-> NoUser]
     ELSE IF fault = "hash"
     THEN [accessToken |-> a.accessToken, expiresAt |-> a.expiresAt,
           refreshToken |-> r.refreshToken, err |-> ErrHash, update |-> FALSE,
           key |-> "", user |-> NoUser]
     ELSE [accessToken |-> a.accessToken, expiresAt |-> a.expiresAt,
           refreshToken |-> r.refreshToken, err |-> NoError, update |-> TRUE,
           key |-> identity.ID,
           user |-> User(identity.ID, "", HashAndSalt(""),
                         <<HashAndSalt(r.refreshToken)>>, FALSE)]

\* the end of generateJWT, were Update keyed by the id of another user
commit_WrongKey(st, g, updateFails) ==
  IF updateFails
  THEN [store |-> st, err |-> ErrStore]
  ELSE [store |-> StoreUpdate(st, CHOOSE i \in IDs : i # g.key, g.user), err |-> NoError]

\* the end of generateJWT: err = repoUser.Update(ctx, identity.GetID(), user);
\* the store after it and the error generateJWT returns
commit(st, g, updateFails) ==
  IF updateFails
  THEN [store |-> st, err |-> ErrStore]
  ELSE [store |-> StoreUpdate(st, g.key, g.user), err |-> NoError]

\* ResponseLogin{AccessToken, ExpiresAt: expiresAt.Format(time.RFC3339), RefreshToken}
ResponseLogin(g) ==
  [AccessToken |-> g.accessToken, ExpiresAt |-> FormatRFC3339(g.expiresAt),
   RefreshToken |-> g.refreshToken]

\* RefreshToken from its entry to the hash comparison, were token_type not looked at
verifyRefresh_NoTypeCheck(st, getFails, req) ==
  IF ~ValidateRefreshToken(req)
  THEN [err |-> ErrValidation, user |-> NoUser, lookups |-> 0]
  ELSE IF ~VerifyToken(req.RefreshToken, SigningKey)
  THEN [err |-> ErrInvalidToken, user |-> NoUser, lookups |-> 0]
  ELSE LET iv == AsString(req.RefreshToken.id)
           id == IF iv.ok THEN iv.val ELSE ""
           g == GetByID(st, id, getFails)
       IN IF g.err # NoError
          THEN [err |-> g.err, user |-> NoUser, lookups |-> 1]
          ELSE IF g.user.RefreshToken = <<>>
          THEN [err |-> Panic, user |-> g.user, lookups |-> 1]
          ELSE IF ~ComparePasswords(Head(g.user.RefreshToken), req.RefreshToken)
          THEN [err |-> ErrExpiredToken, user |-> g.user, lookups |-> 1]
          ELSE [err |-> NoError, user |-> g.user, lookups |-> 1]

\* RefreshToken from its entry to the hash comparison, were a failed lookup
\* reported as an invalid token
verifyRefresh_RemapLookup(st, getFails, req) ==
  IF ~ValidateRefreshToken(req)
  THEN [err |-> ErrValidation, user |-> NoUser, lookups |-> 0]
  ELSE IF ~VerifyToken(req.RefreshToken, SigningKey)
  THEN [err |-> ErrInvalidToken, user |-> NoUser, lookups |-> 0]
  ELSE LET tt == AsString(req.RefreshToken.token_type)
           tokenType == IF tt.ok THEN tt.val ELSE ""
           iv == AsString(req.RefreshToken.id)
           id == IF iv.ok THEN iv.val ELSE ""
           g == GetByID(st, id, getFails)
       IN IF tokenType # TokenTypeRefresh
          THEN [err |-> ErrInvalidToken, user |-> NoUser, lookups |-> 0]
          ELSE IF g.err # NoError
          THEN [err |-> ErrInvalidToken, user |-> NoUser, lookups |-> 1]
          ELSE IF g.user.RefreshToken = <<>>
          THEN [err |-> Panic, user |-> g.user, lookups |-> 1]
          ELSE IF ~ComparePasswords(Head(g.user.RefreshToken), req.RefreshToken)
          THEN [err |-> ErrExpiredToken, user |-> g.user, lookups |-> 1]
          ELSE [err |-> NoError, user |-> g.user, lookups |-> 1]

\* RefreshToken from its entry to the hash comparison, were the active flag
\* of the user looked at as authenticate does
verifyRefresh_ActiveCheck(st, getFails, req) ==
  IF ~ValidateRefreshToken(req)
  THEN [err |-> ErrValidation, user |-> NoUser, lookups |-> 0]
  ELSE IF ~VerifyToken(req.RefreshToken, SigningKey)
  THEN [err |-> ErrInvalidToken, user |-> NoUser, lookups |-> 0]
  ELSE LET tt == AsString(req.RefreshToken.token_type)
           tokenType == IF tt.ok THEN tt.val ELSE ""
           iv == AsString(req.RefreshToken.id)
           id == IF iv.ok THEN iv.val ELSE ""
           g == GetByID(st, id, getFails)
       IN IF tokenType # TokenTypeRefresh
          THEN [err |-> ErrInvalidToken, user |-> NoUser, lookups |-> 0]
          ELSE IF g.err # NoError
          THEN [err |-> g.err, user |-> NoUser, lookups |-> 1]
          ELSE IF g.user.RefreshToken = <<>>
          THEN [err |-> Panic, user |-> g.user, lookups |-> 1]
          ELSE IF ~ComparePasswords(Head(g.user.RefreshToken), req.RefreshToken)
          THEN [err |-> ErrExpiredToken, user |-> g.user, lookups |-> 1]
          ELSE IF ~g.user.IsActive
          THEN [err |-> ErrUserIsNotActive, user |-> g.user, lookups |-> 1]
          ELSE [err |-> NoError, user |-> g.user, lookups |-> 1]

\* RefreshToken from its entry to the hash comparison: the error it returns
\* there (NoError when it goes on to generateJWT), the user it found and
\* the number of store lookups it made
verifyRefresh(st, getFails, req) ==
  IF ~ValidateRefreshToken(req)
  THEN [err |-> ErrValidation, user |-> NoUser, lookups |-> 0]
  ELSE IF ~VerifyToken(req.RefreshToken, SigningKey)
  THEN [err |-> ErrInvalidToken, user |-> NoUser, lookups |-> 0]
  ELSE LET tt == AsString(req.RefreshToken.token_type)
           tokenType == IF tt.ok THEN tt.val ELSE ""
           iv == AsString(req.RefreshToken.id)
           id == IF iv.ok THEN iv.val ELSE ""
           g == GetByID(st, id, getFails)
       IN IF tokenType # TokenTypeRefresh
          THEN [err |-> ErrInvalidToken, user |-> NoUser, lookups |-> 0]
          ELSE IF g.err # NoError
          THEN [err |-> g.err, user |-> NoUser, lookups |-> 1]
          ELSE IF g.user.RefreshToken = <<>>
          THEN [err |-> Panic, user |-> g.user, lookups |-> 1]
          ELSE IF ~ComparePasswords(Head(g.user.RefreshToken), req.RefreshToken)
          THEN [err |-> ErrExpiredToken, user |-> g.user, lookups |-> 1]
          ELSE [err |-> NoError, user |-> g.user, lookups |-> 1]

(***************************************************************************)
(* State.                                                                  *)
(***************************************************************************)
VARIABLES
  now,      \* the clock read by times.Now(), in seconds
  store,    \* the user store: id -> domain.User
  pc,       \* per call slot: "idle", or "update" when generateJWT is about to call Update
  pend,     \* per call slot: the call in progress and what generateJWT built
  last,     \* the call that returned in the latest step, with its response and error
  probe,    \* history: a refresh token string, any one, whose life is recorded
  hLogin,   \* history: probe was returned by a successful Login
  hRotated, \* history: probe was presented to a RefreshToken call that succeeded
  hFailed,  \* history: probe was generated by a call whose Update failed
  hSuperseded \* history: a stored hash of probe was replaced by a later Update

history == <<hLogin, hRotated, hFailed, hSuperseded>>

vars == <<now, store, pc, pend, last, probe, history>>

\* the record of a call: its request, the first reading of the clock, whether
\* its context (ctx) has been cancelled, and what the history said of the
\* presented refresh token when the call started
Call(p, op, username, password, refreshToken) ==
  [op |-> op, Username |-> username, Password |-> password,
   RefreshToken |-> refreshToken, start |-> now, cancelled |-> FALSE,
   wasLoginIssued |-> refreshToken = probe /\ hLogin,
   wasRotated |-> refreshToken = probe /\ hRotated,
   wasFailed |-> refreshToken = probe /\ hFailed,
   wasSuperseded |-> refreshToken = probe /\ hSuperseded]

NoCall ==
  [op |-> "none", Username |-> "", Password |-> "",
   RefreshToken |-> EmptyString, start |-> 0, cancelled |-> FALSE,
   wasLoginIssued |-> FALSE,
   wasRotated |-> FALSE, wasFailed |-> FALSE, wasSuperseded |-> FALSE]

NoGenerated == generateJWT(NoUser, 0, 0, 0, "signAccess")

NoPend == [call |-> NoCall, id |-> "", g |-> NoGenerated, lookups |-> 0, raced |-> FALSE]

\* a returned call: the response and the error, the id of the identity it
\* resolved, the store operations it made, the ids whose record it changed,
\* and whether it raced: another RefreshToken call presenting the same token
\* committed its Update between this call's comparison and its own Update
Returned(c, id, res, err, lookups, updates, touched, raced) ==
  [call |-> c, id |-> id, res |-> res, err |-> err, lookups |-> lookups,
   updates |-> updates, touched |-> touched, raced |-> raced]

NoReturned == Returned(NoCall, "", ZeroResponse, NoError, 0, 0, {}, FALSE)

\* the stored users, none with a refresh-token hash: the users in active are active
InitStore(active) ==
  [id \in IDs |-> User(id, UsernameOf[id], HashAndSalt(PlainPasswordOf[id]), <<>>,
                       id \in active)]

(***************************************************************************)
(* The inputs of the calls.                                                *)
(***************************************************************************)
LoginRequests ==
  [Username : {"alice", "bob", "carol"}, Password : {"p1", "p2"}]
    \cup {[Username |-> "", Password |-> "p1"], [Username |-> "alice", Password |-> ""]}

\* the refresh and access tokens the service can sign within the bounds
RefreshTokensOf(id) ==
  {generateRefreshToken(User(id, UsernameOf[id], HashAndSalt(""), <<>>, TRUE),
                        sec, FALSE).refreshToken : sec \in 0..MaxSec}

AccessTokensOf(id) ==
  {generateAccessToken(User(id, UsernameOf[id], HashAndSalt(""), <<>>, TRUE),
                       0, sec, FALSE).accessToken : sec \in 0..MaxSec}

\* other strings a caller can present
CraftedTokens ==
  { EmptyString, Garbage,
    SignedString(Str("u1"), Absent, Unix(AddDate(0, RefreshYears)), Str(TokenTypeRefresh), OtherKey),
    SignedString(Str("u1"), Absent, Unix(AddDate(0, RefreshYears)), Absent, SigningKey),
    SignedString(Str("u1"), Absent, Unix(AddDate(0, RefreshYears)), Num("7"), SigningKey),
    SignedString(Str("u1"), Absent, Unix(AddDate(0, RefreshYears)), Str("other"), SigningKey),
    SignedString(Absent, Absent, Unix(AddDate(0, RefreshYears)), Str(TokenTypeRefresh), SigningKey),
    SignedString(Num("7"), Absent, Unix(AddDate(0, RefreshYears)), Str(TokenTypeRefresh), SigningKey),
    SignedString(Str("u9"), Absent, Unix(AddDate(0, RefreshYears)), Str(TokenTypeRefresh), SigningKey) }

RefreshRequests ==
  [RefreshToken : CraftedTokens \cup UNION {RefreshTokensOf(id) \cup AccessTokensOf(id) : id \in IDs}]

\* the state after NewService, with the history of the refresh token string pr
InitWith(pr, active) ==
  /\ now = 0
  /\ store = InitStore(active)
  /\ pc = [p \in Procs |-> "idle"]
  /\ pend = [p \in Procs |-> NoPend]
  /\ last = NoReturned
  /\ probe = pr
  /\ hLogin = FALSE
  /\ hRotated = FALSE
  /\ hFailed = FALSE
  /\ hSuperseded = FALSE

(***************************************************************************)
(* The steps of the calls.                                                 *)
(***************************************************************************)
\* the context a call is entered with, and whether its store lookup fails:
\* the operations of the store fail once ctx is cancelled
CtxAtEntry == {x \in [done : BOOLEAN, getFails : BOOLEAN] : x.done => x.getFails}

\* a return of Login or RefreshToken before generateJWT reaches Update
ReturnEarly(p, c, id, res, err, lookups) ==
  /\ last' = Returned(c, id, res, err, lookups, 0, {}, FALSE)
  /\ pc' = [pc EXCEPT ![p] = "idle"]
  /\ pend' = [pend EXCEPT ![p] = NoPend]
  /\ UNCHANGED <<store, probe, history>>

\* s.generateJWT(ctx, identity) and the return statement around it, up to Update;
\* the readings of times.Now() are d1 and d2 seconds apart
Issue(p, c, identity, lookups, faults, gaps) ==
  \E fault \in faults, d1 \in gaps, d2 \in gaps :
    LET r1 == now
        r2 == r1 + d1
        r3 == r2 + d2
        g == generateJWT(identity, r1, r2, r3, fault)
    IN /\ r3 <= MaxSec
       /\ now' = r3
       /\ IF ~g.update
          THEN ReturnEarly(p, c, identity.ID, ResponseLogin(g), g.err, lookups)
          ELSE /\ pc' = [pc EXCEPT ![p] = "update"]
               /\ pend' = [pend EXCEPT ![p] = [call |-> c, id |-> identity.ID, g |-> g,
                                               lookups |-> lookups, raced |-> FALSE]]
               /\ last' = NoReturned
               /\ UNCHANGED <<store, probe, history>>

\* Login, were a lookup that failed with an error of the store tried again
Login_RetryLookup(p, req, faults, gaps) ==
  /\ pc[p] = "idle"
  /\ LET c0 == Call(p, "login", req.Username, req.Password, EmptyString) IN
     IF ~ValidateLogin(req)
     THEN ReturnEarly(p, c0, "", ZeroResponse, ErrValidation, 0) /\ UNCHANGED now
     ELSE \E ctx \in CtxAtEntry :
          LET c == [c0 EXCEPT !.cancelled = ctx.done]
              a == authenticate(store, ctx.getFails, req.Username, req.Password)
              b == authenticate(store, ctx.done, req.Username, req.Password)
          IN IF a.err = ErrStore
             THEN IF b.err # NoError
                  THEN ReturnEarly(p, c, "", ZeroResponse, b.err, 2) /\ UNCHANGED now
                  ELSE Issue(p, c, b.identity, 2, faults, gaps)
             ELSE IF a.err # NoError
             THEN ReturnEarly(p, c, "", ZeroResponse, a.err, 1) /\ UNCHANGED now
             ELSE Issue(p, c, a.identity, 1, faults, gaps)

\* Login, up to the Update of generateJWT
Login(p, req, faults, gaps) ==
  /\ pc[p] = "idle"
  /\ LET c0 == Call(p, "login", req.Username, req.Password, EmptyString) IN
     IF ~ValidateLogin(req)
     THEN ReturnEarly(p, c0, "", ZeroResponse, ErrValidation, 0) /\ UNCHANGED now
     ELSE \E ctx \in CtxAtEntry :
          LET c == [c0 EXCEPT !.cancelled = ctx.done]
              a == authenticate(store, ctx.getFails, req.Username, req.Password)
          IN IF a.err # NoError
             THEN ReturnEarly(p, c, "", ZeroResponse, a.err, 1) /\ UNCHANGED now
             ELSE Issue(p, c, a.identity, 1, faults, gaps)

\* RefreshToken, up to the Update of generateJWT
RefreshToken(p, req, faults, gaps) ==
  /\ pc[p] = "idle"
  /\ \E ctx \in IF verifyRefresh(store, FALSE, req).lookups = 0
                 THEN {[done |-> FALSE, getFails |-> FALSE]} ELSE CtxAtEntry :
     LET c == [Call(p, "refresh", "", "", req.RefreshToken) EXCEPT !.cancelled = ctx.done]
         v == verifyRefresh(store, ctx.getFails, req)
     IN IF v.err # NoError
        THEN ReturnEarly(p, c, v.user.ID, ZeroResponse, v.err, v.lookups) /\ UNCHANGED now
        ELSE Issue(p, c, v.user, v.lookups, faults, gaps)

\* the return of generateJWT, and of the handler that called it, after Update
\* left the store and the error u
UpdateWith(p, u) ==
  /\ pc[p] = "update"
  /\ LET c == pend[p].call
         g == pend[p].g
         ok == u.err = NoError
         old == store[g.key].RefreshToken
     IN /\ store' = u.store
        /\ last' = Returned(c, pend[p].id, ResponseLogin(g), u.err, pend[p].lookups, 1,
                            {i \in IDs : u.store[i] # store[i]}, pend[p].raced)
        /\ pend' = [q \in Procs |->
                      IF q = p THEN NoPend
                      ELSE IF /\ ok /\ pc[q] = "update"
                              /\ c.op = "refresh" /\ pend[q].call.op = "refresh"
                              /\ pend[q].call.RefreshToken = c.RefreshToken
                           THEN [pend[q] EXCEPT !.raced = TRUE]
                           ELSE pend[q]]
        /\ hLogin' = (hLogin \/ (ok /\ c.op = "login" /\ g.refreshToken = probe))
        /\ hRotated' = (hRotated \/ (ok /\ c.op = "refresh" /\ c.RefreshToken = probe))
        /\ hFailed' = (hFailed \/ (~ok /\ g.refreshToken = probe))
        /\ hSuperseded' = (hSuperseded \/ (ok /\ old # <<>> /\ Head(old).hashOf = probe))
  /\ pc' = [pc EXCEPT ![p] = "idle"]
  /\ UNCHANGED <<now, probe>>

\* Update, were the presented refresh token compared again with the stored
\* hash in one step with the write
Update_Recheck(p, updateFails) ==
  /\ pc[p] = "update"
  /\ LET c == pend[p].call
         cur == store[pend[p].g.key].RefreshToken
     IN IF c.op = "refresh" /\ (cur = <<>> \/ ~ComparePasswords(Head(cur), c.RefreshToken))
        THEN UpdateWith(p, [store |-> store, err |-> ErrExpiredToken])
        ELSE UpdateWith(p, commit(store, pend[p].g, updateFails \/ pend[p].call.cancelled))

\* Update, were it called with a context detached from the request
Update_DetachedCtx(p, updateFails) ==
  /\ pc[p] = "update"
  /\ UpdateWith(p, commit(store, pend[p].g, updateFails))

\* the Update at the end of generateJWT, and the return of generateJWT and of
\* the handler that called it; the store fails once ctx is cancelled
Update(p, updateFails) ==
  /\ pc[p] = "update"
  /\ UpdateWith(p, commit(store, pend[p].g, updateFails \/ pend[p].call.cancelled))

\* the caller cancels the context of a call that is between its lookup and
\* its Update
Cancel(p) ==
  /\ pc[p] = "update"
  /\ ~pend[p].call.cancelled
  /\ pend' = [pend EXCEPT ![p].call.cancelled = TRUE]
  /\ last' = NoReturned
  /\ UNCHANGED <<now, store, pc, probe, history>>

\* user management, outside the service, clears the active flag of a user
Deactivate(id) ==
  /\ store[id].IsActive
  /\ store' = [store EXCEPT ![id].IsActive = FALSE]
  /\ last' = NoReturned
  /\ UNCHANGED <<now, pc, pend, probe, history>>

\* time passes
Tick ==
  /\ now < MaxSec
  /\ now' = now + 1
  /\ last' = NoReturned
  /\ UNCHANGED <<store, pc, pend, probe, history>>

LoginAny(p, requests, faults, gaps) == \E req \in requests : Login(p, req, faults, gaps)

RefreshTokenAny(p, requests, faults, gaps) ==
  \E req \in requests : RefreshToken(p, req, faults, gaps)

UpdateAny(p) == \E updateFails \in BOOLEAN : Update(p, updateFails)

\* the requests of interleaved calls: the logins of the stored users, a wrong
\* password, and the refresh tokens the service can sign; the interleaving is
\* at the store, and the clock, which Tick moves between the steps, stands
\* still within a step
ConcLoginRequests ==
  {[Username |-> UsernameOf[id], Password |-> PlainPasswordOf[id]] : id \in IDs}
    \cup {[Username |-> "alice", Password |-> "p2"]}

ConcRefreshRequests == [RefreshToken : UNION {RefreshTokensOf(id) : id \in IDs}]

\* calls interleave
Next ==
  \/ \E p \in Procs : LoginAny(p, ConcLoginRequests, IssueFaults, {0})
  \/ \E p \in Procs : RefreshTokenAny(p, ConcRefreshRequests, IssueFaults, {0})
  \/ \E p \in Procs : UpdateAny(p)
  \/ \E p \in Procs : Cancel(p)
  \/ Tick

\* interleaved calls of two active users; no history is recorded
Init == InitWith(EmptyString, IDs)

Spec == Init /\ [][Next]_vars

\* calls run one after the other, in the first call slot
NextSeq ==
  \/ LoginAny(1, LoginRequests, IssueFaults, {0, 1})
  \/ RefreshTokenAny(1, RefreshRequests, IssueFaults, {0, 1})
  \/ UpdateAny(1)
  \/ Tick

\* u1 is active, u2 is active or not; the history is that of any refresh token
\* the service can sign for u1
InitSeq == \E pr \in RefreshTokensOf("u1"), active \in {{"u1"}, IDs} : InitWith(pr, active)

SpecSeq == InitSeq /\ [][NextSeq]_vars

\* the requests of the calls whose termination is checked: a login that
\* succeeds, one of an unknown user and one that fails validation; the refresh
\* tokens the service can sign for u1, one of an unknown id and a malformed one
FairLoginRequests ==
  {[Username |-> "alice", Password |-> "p1"], [Username |-> "carol", Password |-> "p1"],
   [Username |-> "", Password |-> "p1"]}

FairRefreshRequests ==
  [RefreshToken : RefreshTokensOf("u1") \cup
     {Garbage,
      SignedString(Str("u9"), Absent, Unix(AddDate(0, RefreshYears)), Str(TokenTypeRefresh),
                   SigningKey)}]

NextFair ==
  \/ \E p \in Procs : LoginAny(p, FairLoginRequests, IssueFaults, {0})
  \/ \E p \in Procs : RefreshTokenAny(p, FairRefreshRequests, IssueFaults, {0})
  \/ \E p \in Procs : UpdateAny(p)
  \/ \E p \in Procs : Cancel(p)
  \/ Tick

\* interleaved calls whose store operations return: a call that has reached
\* Update is not left waiting for it
SpecFair == Init /\ [][NextFair]_vars /\ \A p \in Procs : WF_vars(UpdateAny(p))

\* calls run one after the other while user management clears active flags
NextAdmin ==
  \/ LoginAny(1, ConcLoginRequests, IssueFaults, {0})
  \/ RefreshTokenAny(1, ConcRefreshRequests, IssueFaults, {0})
  \/ UpdateAny(1)
  \/ \E id \in IDs : Deactivate(id)
  \/ Tick

SpecAdmin == Init /\ [][NextAdmin]_vars

(***************************************************************************)
(* Properties.  They speak of the call that returned in the latest step    *)
(* (last) and of the store it left.                                        *)
(***************************************************************************)
\* failures of the store, of signing and of hashing
InfraErrors == {ErrStore, ErrCannotGenerateToken, ErrHash}

\* the request of the Login call that returned
LastLogin == [Username |-> last.call.Username, Password |-> last.call.Password]

\* the request of the RefreshToken call that returned
LastRefresh == [RefreshToken |-> last.call.RefreshToken]

\* RefreshToken would pass the comparison for the token t in the store st
Accepts(st, t) == verifyRefresh(st, FALSE, [RefreshToken |-> t]).err = NoError

\* the token is signed with the configured key and typed "refresh"
SignedRefresh(t) == VerifyToken(t, SigningKey) /\ t.token_type = Str(TokenTypeRefresh)

\* C1: a refresh token returned by a successful Login is rotated by a first
\* RefreshToken, and every later RefreshToken call presenting the same string
\* returns ErrExpiredToken, whatever the time between issuance and rotation
\* (the store answering, and signing and hashing succeeding).
C1_RotationRoundTrip ==
  (last.call.op = "refresh" /\ last.call.wasLoginIssued /\ last.err \notin InfraErrors) =>
    IF last.call.wasRotated
    THEN last.err = ErrExpiredToken
    ELSE (~last.call.wasSuperseded => last.err = NoError)

\* C2: a Login whose username is not in the store and a Login whose password
\* does not match the stored hash both return ErrInvalidCreds, with the zero
\* response, no Update and an unchanged store.
C2_InvalidCredsIndistinguishable ==
  (/\ last.call.op = "login"
   /\ ValidateLogin(LastLogin)
   /\ last.err # ErrStore
   /\ \/ \A id \in IDs : store[id].Username # last.call.Username
      \/ \E id \in IDs : /\ store[id].Username = last.call.Username
                         /\ ~ComparePasswords(store[id].Password, last.call.Password))
  => /\ last.err = ErrInvalidCreds
     /\ last.res = ZeroResponse
     /\ last.updates = 0
     /\ last.touched = {}

\* a Login for a username that is not in the store returned ErrInvalidCreds
C2_Witness ==
  /\ last.call.op = "login"
  /\ last.call.Username = "carol"
  /\ last.err = ErrInvalidCreds

\* the user of the Login that returned is stored, the password matches, and
\* the user is not active
LastLoginInactiveMatch ==
  \E id \in IDs : /\ store[id].Username = last.call.Username
                  /\ ComparePasswords(store[id].Password, last.call.Password)
                  /\ ~store[id].IsActive

\* C3: Login returns ErrUserIsNotActive exactly when the identity is found,
\* the password matches and the active flag is false; then no token is
\* issued and the store is unchanged; a wrong password on an inactive account
\* gives ErrInvalidCreds.
C3_InactiveAfterPasswordMatch ==
  (last.call.op = "login" /\ ValidateLogin(LastLogin) /\ last.err # ErrStore) =>
    /\ (last.err = ErrUserIsNotActive) <=> LastLoginInactiveMatch
    /\ last.err = ErrUserIsNotActive =>
         (last.res = ZeroResponse /\ last.updates = 0 /\ last.touched = {})
    /\ (\E id \in IDs : /\ store[id].Username = last.call.Username
                        /\ ~store[id].IsActive
                        /\ ~ComparePasswords(store[id].Password, last.call.Password))
         => last.err = ErrInvalidCreds

\* a Login with the right password of an inactive user returned ErrUserIsNotActive
C3_Witness ==
  /\ last.call.op = "login"
  /\ last.err = ErrUserIsNotActive
  /\ LastLoginInactiveMatch

\* C4: RefreshToken returns ErrInvalidToken, without a lookup or an Update,
\* for every token that fails VerifyToken and for every verified token whose
\* token_type is absent, not a string or not "refresh"; so for access tokens.
C4_InvalidTokenRejected ==
  (/\ last.call.op = "refresh"
   /\ ValidateRefreshToken(LastRefresh)
   /\ ~SignedRefresh(last.call.RefreshToken))
  => /\ last.err = ErrInvalidToken
     /\ last.res = ZeroResponse
     /\ last.lookups = 0
     /\ last.updates = 0
     /\ last.touched = {}

\* an access token of a user who has logged in was presented and rejected
C4_Witness ==
  /\ last.call.op = "refresh"
  /\ last.call.RefreshToken \in AccessTokensOf("u1")
  /\ store["u1"].RefreshToken # <<>>
  /\ last.err = ErrInvalidToken

\* C5: RefreshToken with a signed refresh token of an identity whose stored
\* refresh-token hash is nil returns ErrExpiredToken, and the store is unchanged.
C5_NilHashIsExpired ==
  (/\ last.call.op = "refresh"
   /\ SignedRefresh(last.call.RefreshToken)
   /\ last.id \in IDs
   /\ last.err # ErrStore
   /\ store[last.id].RefreshToken = <<>>)
  => /\ last.err = ErrExpiredToken
     /\ last.updates = 0
     /\ last.touched = {}

\* C6: when Update fails, the call returns that error and the store is
\* unchanged, and no later RefreshToken call accepts the refresh token that
\* the failed call generated.
C6_FailedIssuanceNotValid ==
  /\ (last.updates = 1 /\ last.err # NoError) => (last.err = ErrStore /\ last.touched = {})
  /\ (last.call.op = "refresh" /\ last.call.wasFailed) => last.err # NoError

\* C7: for each identity at most one refresh token string is accepted, and
\* every refresh token whose stored hash was replaced by a later issuance is
\* rejected with ErrExpiredToken (the store answering).
C7_SingleLiveToken ==
  /\ \A id \in IDs : \A t1, t2 \in RefreshTokensOf(id) :
       (Accepts(store, t1) /\ Accepts(store, t2)) => t1 = t2
  /\ (last.call.op = "refresh" /\ last.call.wasSuperseded /\ last.err \notin InfraErrors)
       => last.err = ErrExpiredToken

\* C8: a RefreshToken call that passed the comparison, and whose Update runs
\* after another RefreshToken call presenting the same token has committed
\* its own, is not stopped: unless the store fails, it succeeds and its hash
\* is stored.
C8_NoSerialization ==
  (last.raced /\ last.err # ErrStore) =>
    /\ last.err = NoError
    /\ store[last.id].RefreshToken # <<>>
    /\ ComparePasswords(Head(store[last.id].RefreshToken), last.res.RefreshToken)

\* two RefreshToken calls presenting the same token passed the comparison
\* before either Update, and both returned a token pair
C8_Witness ==
  /\ last.raced
  /\ last.call.op = "refresh"
  /\ last.err = NoError

\* C9: a Login of an active identity with the right password succeeds (the
\* store, signing and hashing succeeding); the access token carries the id and
\* the username with token_type "access"; exp and ExpiresAt are the call time
\* plus the TTL; the refresh token carries the id with token_type "refresh";
\* the stored hash matches the returned refresh token.
C9_LoginIssuesPair ==
  (last.call.op = "login" /\ ValidateLogin(LastLogin)) =>
    /\ (/\ last.err \notin InfraErrors
        /\ \E id \in IDs : /\ store[id].Username = last.call.Username
                           /\ ComparePasswords(store[id].Password, last.call.Password)
                           /\ store[id].IsActive)
         => last.err = NoError
    /\ last.err = NoError =>
         /\ last.id \in IDs
         /\ store[last.id].Username = last.call.Username
         /\ last.res.AccessToken.id = Str(last.id)
         /\ last.res.AccessToken.username = Str(last.call.Username)
         /\ last.res.AccessToken.token_type = Str(TokenTypeAccess)
         /\ last.res.AccessToken.exp = Unix(AddMinutes(last.call.start, TokenExpiration))
         /\ last.res.ExpiresAt = FormatRFC3339(AddMinutes(last.call.start, TokenExpiration))
         /\ last.res.RefreshToken.id = Str(last.id)
         /\ last.res.RefreshToken.token_type = Str(TokenTypeRefresh)
         /\ store[last.id].RefreshToken # <<>>
         /\ ComparePasswords(Head(store[last.id].RefreshToken), last.res.RefreshToken)

\* the store with the refresh-token hash of every identity but id erased
OnlyRecord(st, id) ==
  [i \in IDs |-> IF i = id THEN st[i] ELSE [st[i] EXCEPT !.RefreshToken = <<>>]]

\* C10: a call changes the stored record of no identity but its own, and what
\* a call for an identity reads and decides is the same whatever the stored
\* refresh-token hashes of the other identities.
C10_IdentitiesIndependent ==
  /\ last.touched \subseteq {last.id}
  /\ \A id \in IDs : \A t \in RefreshTokensOf(id) :
       verifyRefresh(store, FALSE, [RefreshToken |-> t])
         = verifyRefresh(OnlyRecord(store, id), FALSE, [RefreshToken |-> t])
  /\ \A id \in IDs : \A pw \in {"p1", "p2"} :
       authenticate(store, FALSE, UsernameOf[id], pw)
         = authenticate(OnlyRecord(store, id), FALSE, UsernameOf[id], pw)

\* a call for u2 committed its Update while a call for u1 was between its
\* lookup and its Update
C10_Witness ==
  /\ \E p \in Procs : pc[p] = "update" /\ pend[p].id = "u1"
  /\ last.id = "u2"
  /\ last.err = NoError
  /\ last.touched = {"u2"}

\* the id RefreshToken looks up for the token t: the id claim when it is a
\* string, the empty string otherwise
ClaimedID(t) == LET iv == AsString(t.id) IN IF iv.ok THEN iv.val ELSE ""

\* C11: for a signed refresh-typed token RefreshToken makes one lookup, by the
\* id claim (the empty string when the claim is missing or not a string); when
\* GetByID fails the call returns the error of the store (not-found or
\* another), never ErrInvalidToken or ErrExpiredToken, with the zero response,
\* no Update and an unchanged store.
C11_LookupErrorPropagated ==
  (last.call.op = "refresh" /\ SignedRefresh(last.call.RefreshToken)) =>
    LET found == GetByID(store, ClaimedID(last.call.RefreshToken), FALSE) IN
    /\ last.lookups = 1
    /\ last.err # ErrInvalidToken
    /\ last.err = ErrExpiredToken => found.err = NoError
    /\ found.err # NoError => last.err \in {found.err, ErrStore}
    /\ (last.updates = 0 /\ last.err \in {ErrResourceNotFound, ErrStore}) =>
         /\ last.res = ZeroResponse
         /\ last.id = ""
         /\ last.touched = {}

\* a signed refresh token without an id claim was looked up by the empty
\* string and the not-found error of the store was returned
C11_Witness ==
  /\ last.call.op = "refresh"
  /\ SignedRefresh(last.call.RefreshToken)
  /\ last.call.RefreshToken.id = Absent
  /\ last.lookups = 1
  /\ last.err = ErrResourceNotFound

\* errors of a call that does not come to issue tokens
DomainErrors ==
  {ErrValidation, ErrInvalidCreds, ErrUserIsNotActive, ErrInvalidToken, ErrExpiredToken,
   ErrResourceNotFound}

\* the step is the Update, and the return, of some call
UpdateStep == \E p \in Procs : pc[p] = "update" /\ pc'[p] = "idle"

\* what the returned call and the pending Updates say of the frame
FrameOfCalls ==
  /\ (last.call.op # "none" /\ last.err \in DomainErrors) =>
       (last.updates = 0 /\ last.touched = {})
  /\ (last.err = ErrStore /\ last.updates = 0) => last.touched = {}
  /\ (last.call.op # "none" /\ last.err = NoError) =>
       (last.updates = 1 /\ last.touched \subseteq {last.id})
  /\ \A p \in Procs : pc[p] = "update" =>
       /\ pend[p].g.key = pend[p].id
       /\ pend[p].g.user = User(pend[p].id, "", HashAndSalt(""),
                                <<HashAndSalt(pend[p].g.refreshToken)>>, FALSE)

\* what a step does to the store
FrameOfStep ==
  /\ (\E id \in IDs : store'[id].RefreshToken # store[id].RefreshToken) => UpdateStep
  /\ UpdateStep =>
       \A id \in IDs : /\ store'[id].ID = store[id].ID
                        /\ store'[id].Username = store[id].Username
                        /\ store'[id].Password = store[id].Password
                        /\ store'[id].IsActive = store[id].IsActive

\* C12: the stored refresh-token hash changes only in the Update step of
\* generateJWT; a call that ends with a validation error, ErrInvalidCreds,
\* ErrUserIsNotActive, ErrInvalidToken, ErrExpiredToken or a lookup error
\* makes no Update and leaves the store unchanged; a successful call makes
\* exactly one Update, of its own identity, whose payload is the id and the
\* new refresh-token hash, and which leaves username, password hash and
\* active flag as they were.
C12_StoredHashFrame == []FrameOfCalls /\ [][FrameOfStep]_vars

\* a RefreshToken call succeeded and its Update replaced the stored hash
C12_Witness ==
  /\ last.call.op = "refresh"
  /\ last.err = NoError
  /\ last.updates = 1
  /\ last.touched = {last.id}

\* C13: Update is reached only with a signed access token, a signed refresh
\* token and the hash of that refresh token, all made without error; when
\* signing or hashing fails the call returns that error, makes no Update and
\* leaves the store unchanged.
C13_UpdateAfterSignAndHash ==
  /\ \A p \in Procs : pc[p] = "update" =>
       /\ pend[p].g.err = NoError
       /\ pend[p].g.accessToken.s = "jwt"
       /\ pend[p].g.refreshToken.s = "jwt"
       /\ pend[p].g.user.RefreshToken = <<HashAndSalt(pend[p].g.refreshToken)>>
  /\ last.updates = 1 =>
       /\ last.err \in {NoError, ErrStore}
       /\ last.res.AccessToken.s = "jwt"
       /\ last.res.RefreshToken.s = "jwt"
  /\ last.err \in {ErrCannotGenerateToken, ErrHash} =>
       (last.updates = 0 /\ last.touched = {})
  /\ (/\ last.res # ZeroResponse
      /\ \/ last.res.AccessToken = EmptyString
         \/ last.res.RefreshToken = EmptyString)
     => (last.err = ErrCannotGenerateToken /\ last.updates = 0)

\* a RefreshToken call signed both tokens, failed to hash the refresh token
\* and returned without an Update
C13_Witness ==
  /\ last.call.op = "refresh"
  /\ last.err = ErrHash
  /\ last.res.RefreshToken.s = "jwt"
  /\ last.updates = 0

\* C14: a call whose context is cancelled before its Update commits returns
\* an error and leaves the store unchanged; a call returns success only when
\* its Update has committed the hash of the refresh token it returns; and a
\* call that changed the stored hash returns success.
C14_CancellationPropagated ==
  /\ last.call.cancelled => (last.err # NoError /\ last.touched = {})
  /\ (last.call.op # "none" /\ last.err = NoError) =>
       /\ last.updates = 1
       /\ store[last.id].RefreshToken = <<HashAndSalt(last.res.RefreshToken)>>
  /\ last.touched # {} => last.err = NoError

\* a RefreshToken call was cancelled between its comparison and its Update:
\* the Update failed and the call returned the error of the store
C14_Witness ==
  /\ last.call.op = "refresh"
  /\ last.call.cancelled
  /\ last.updates = 1
  /\ last.err = ErrStore

\* the store operations of the returned call and of the calls in progress
StoreOperationsOnce ==
  /\ last.lookups <= 1
  /\ last.updates <= 1
  /\ \A p \in Procs : pc[p] = "update" => pend[p].lookups = 1

\* C15: every call that reaches Update returns (the calls that do not reach
\* it return in the step that starts them), and no call makes more than one
\* lookup or more than one Update, whatever the store answers.
C15_TerminatesWithoutRetry ==
  /\ []StoreOperationsOnce
  /\ \A p \in Procs : (pc[p] = "update") ~> (pc[p] = "idle")

\* a Login returned the error of its one failed lookup while another call
\* was waiting for its Update
C15_Witness ==
  /\ last.call.op = "login"
  /\ last.err = ErrStore
  /\ last.lookups = 1
  /\ last.updates = 0
  /\ \E p \in Procs : pc[p] = "update"

\* C16: when a call succeeds, whatever calls for the same identity it raced
\* with, the stored hash is the one its Update wrote: the refresh token it
\* returned is accepted, and every other refresh token string of that
\* identity, the ones returned by calls that committed before it included, is
\* rejected with ErrExpiredToken.
C16_LastWriterWins ==
  (last.call.op # "none" /\ last.err = NoError) =>
    /\ last.id \in IDs
    /\ Accepts(store, last.res.RefreshToken)
    /\ \A t \in RefreshTokensOf(last.id) :
         t # last.res.RefreshToken =>
           verifyRefresh(store, FALSE, [RefreshToken |-> t]).err = ErrExpiredToken

\* two RefreshToken calls presenting the same token both succeeded, and the
\* Update that committed last replaced the hash the other had written
C16_Witness ==
  /\ last.call.op = "refresh"
  /\ last.raced
  /\ last.err = NoError
  /\ last.touched = {last.id}

\* the store with the active flag of id inverted
FlipActive(st, id) == [st EXCEPT ![id].IsActive = ~st[id].IsActive]

\* what RefreshToken decides and issues for the token t in the store st at
\* the present second, the store, signing and hashing succeeding
RefreshOutcome(st, t) ==
  LET v == verifyRefresh(st, FALSE, [RefreshToken |-> t])
  IN [err |-> v.err, lookups |-> v.lookups,
      g |-> IF v.err = NoError THEN generateJWT(v.user, now, now, now, "none")
            ELSE NoGenerated]

\* C17: the outcome of RefreshToken is the same in two stores that differ
\* only in the active flag of the identity the token names; RefreshToken
\* never returns ErrUserIsNotActive, while Login with the right password of
\* an identity that is inactive when it is looked up does.
C17_RefreshIgnoresActiveFlag ==
  /\ \A id \in IDs : \A t \in RefreshTokensOf(id) :
       RefreshOutcome(store, t) = RefreshOutcome(FlipActive(store, id), t)
  /\ last.call.op = "refresh" => last.err # ErrUserIsNotActive
  /\ (/\ last.call.op = "login"
      /\ last.updates = 0
      /\ last.err \notin InfraErrors
      /\ LastLoginInactiveMatch)
     => last.err = ErrUserIsNotActive

\* an identity that logged in and was then made inactive rotated its
\* refresh token
C17_Witness ==
  /\ last.call.op = "refresh"
  /\ last.err = NoError
  /\ last.id \in IDs
  /\ ~store[last.id].IsActive
  /\ last.res.AccessToken.s = "jwt"

\* C18: a call that returns an error returns a response whose AccessToken
\* and RefreshToken are empty, wherever the call failed.
C18_NoTokensOnError ==
  (last.call.op # "none" /\ last.err \notin {NoError, Panic}) =>
    /\ last.res.AccessToken = EmptyString
    /\ last.res.RefreshToken = EmptyString

====
